---- MODULE Spec2Model ----
(***************************************************************************)
(* Model of the DataAnalyzer dashboard: the query engine                   *)
(* (utils/data_processor.py, class DataProcessor), the chart builder       *)
(* (utils/visualizations.py, class Visualizer) and the Streamlit script    *)
(* that drives them (app.py).                                              *)
(*                                                                         *)
(* Python strings are sequences of one-character strings, so that          *)
(* str.lower(), str(num) and the substring test `x in y` are computed.     *)
(* Python's None is the string "None" where a name is expected.            *)
(***************************************************************************)
EXTENDS Integers, Sequences, FiniteSets, TLC

VARIABLES data_processor, last, input, session_state, widgets

vars == <<data_processor, last, input, session_state, widgets>>

(***************************************************************************)
(* Strings                                                                 *)
(***************************************************************************)
UpperAlpha ==
  <<"A","B","C","D","E","F","G","H","I","J","K","L","M",
    "N","O","P","Q","R","S","T","U","V","W","X","Y","Z">>

LowerAlpha ==
  <<"a","b","c","d","e","f","g","h","i","j","k","l","m",
    "n","o","p","q","r","s","t","u","v","w","x","y","z">>

DecimalDigits == <<"0","1","2","3","4","5","6","7","8","9">>

\* str.lower() on one character
ToLower ==
  [c \in {UpperAlpha[i] : i \in 1..Len(UpperAlpha)} |->
     LowerAlpha[CHOOSE i \in 1..Len(UpperAlpha) : UpperAlpha[i] = c]]

lower_char(c) == IF c \in DOMAIN ToLower THEN ToLower[c] ELSE c

\* str.lower()
lower(s) == [i \in 1..Len(s) |-> lower_char(s[i])]

\* str(num) for a non-negative integer
RECURSIVE str(_)
str(num) ==
  IF num < 10 THEN <<DecimalDigits[num + 1]>>
  ELSE str(num \div 10) \o <<DecimalDigits[(num % 10) + 1]>>

\* Python's `pat in s` on strings
contains(pat, s) ==
  \E i \in 0..(Len(s) - Len(pat)) : SubSeq(s, i + 1, i + Len(pat)) = pat

\* any(word in query for word in words)
contains_any(words, s) == \E w \in words : contains(w, s)

(***************************************************************************)
(* Spreadsheets.  A file either fails to parse or parses to a table of     *)
(* named, typed columns and ordered rows; every cell is its text, a        *)
(* missing cell is "NaN".  A column label read from a numeric header cell  *)
(* is an int, not a str.                                                   *)
(***************************************************************************)
None == "None"

Label(is_str, text) == [is_str |-> is_str, text |-> text]

Column(label, dtype) == [label |-> label, dtype |-> dtype]

\* sales.xlsx: 21 rows, three columns, some missing scores
SalesColumns ==
  << Column(Label(TRUE, <<"A","g","e">>), "int64"),
     Column(Label(TRUE, <<"C","i","t","y">>), "object"),
     Column(Label(TRUE, <<"S","c","o","r","e">>), "float64") >>

SalesRows ==
  [i \in 1..21 |->
     << str(20 + (i % 4)),
        IF i % 3 = 0 THEN <<"o","s","l","o">> ELSE <<"r","o","m","e">>,
        IF i % 5 = 0 THEN <<"N","a","N">> ELSE str(i) >>]

\* years.xlsx: 3 rows, the first header cell is the number 2023
YearsColumns ==
  << Column(Label(FALSE, <<"2","0","2","3">>), "int64"),
     Column(Label(TRUE, <<"N","a","m","e">>), "object") >>

YearsRows ==
  << << str(7), <<"a","n","n">> >>,
     << str(9), <<"b","o","b">> >>,
     << str(7), <<"a","n","n">> >> >>

\* nums.xlsx: 6 rows, one numeric column
NumsColumns == << Column(Label(TRUE, <<"q","t","y">>), "int64") >>

NumsRows == [i \in 1..6 |-> << str(i % 3) >>]

Files == {"sales.xlsx", "years.xlsx", "nums.xlsx", "blank.xlsx", "corrupt.xlsx"}

Parsable == Files \ {"corrupt.xlsx"}

\* the table pd.read_excel yields for a parsable file
columns(df) ==
  CASE df = "sales.xlsx" -> SalesColumns
    [] df = "years.xlsx" -> YearsColumns
    [] df = "nums.xlsx" -> NumsColumns
    [] OTHER -> << >>

rows(df) ==
  CASE df = "sales.xlsx" -> SalesRows
    [] df = "years.xlsx" -> YearsRows
    [] df = "nums.xlsx" -> NumsRows
    [] OTHER -> << >>

\* pd.read_excel(file): the table, or the exception
read_excel(file) ==
  IF file \in Parsable THEN [raised |-> FALSE, df |-> file]
  ELSE [raised |-> TRUE, df |-> None]

is_numeric(col) == col.dtype \in {"int64", "float64"}

all_numeric(df) == \A i \in 1..Len(columns(df)) : is_numeric(columns(df)[i])

\* df.empty: some axis has length 0
empty(df) == Len(rows(df)) = 0 \/ Len(columns(df)) = 0

(***************************************************************************)
(* Values handed back to the caller.  Every value has the same shape:      *)
(* kind, the table it was computed from, a number, and a list of rows of   *)
(* cells.                                                                  *)
(***************************************************************************)
Res(kind, df, n, data) == [kind |-> kind, df |-> df, n |-> n, data |-> data]

Message(kind) == Res(kind, None, 0, << >>)

\* the labels of the numeric columns, in column order (numeric_only=True)
RECURSIVE numeric_from(_, _)
numeric_from(df, i) ==
  IF i > Len(columns(df)) THEN << >>
  ELSE (IF is_numeric(columns(df)[i]) THEN <<columns(df)[i].label.text>> ELSE << >>)
       \o numeric_from(df, i + 1)

numeric_labels(df) == numeric_from(df, 1)

\* df.head(n)
head(df, n) == SubSeq(rows(df), 1, IF n < Len(rows(df)) THEN n ELSE Len(rows(df)))

\* Series.unique(): the distinct cells of column i in order of appearance
unique(df, i) ==
  LET RECURSIVE dedupe(_, _)
      dedupe(k, seen) ==
        IF k > Len(rows(df)) THEN << >>
        ELSE LET cell == rows(df)[k][i]
             IN IF cell \in seen THEN dedupe(k + 1, seen)
                ELSE <<cell>> \o dedupe(k + 1, seen \cup {cell})
  IN dedupe(1, {})

(***************************************************************************)
(* DataProcessor.process_query, basic (fallback) part: lines 62-99         *)
(***************************************************************************)
average == <<"a","v","e","r","a","g","e">>
mean == <<"m","e","a","n">>
median == <<"m","e","d","i","a","n">>
sum == <<"s","u","m">>
count == <<"c","o","u","n","t">>
describe == <<"d","e","s","c","r","i","b","e">>
uniq == <<"u","n","i","q","u","e">>
correlation == <<"c","o","r","r","e","l","a","t","i","o","n">>
corr == <<"c","o","r","r">>
top == <<"t","o","p">>
first == <<"f","i","r","s","t">>

HeadDefault == 5

ScanLast == 20

\* the chain with the top/first test moved to the front
branch_top_first(query) ==
  IF contains(top, query) \/ contains(first, query) THEN "top"
  ELSE IF contains_any({average, mean}, query) THEN "mean"
  ELSE IF contains(median, query) THEN "median"
  ELSE IF contains(sum, query) THEN "sum"
  ELSE IF contains(count, query) THEN "count"
  ELSE IF contains(describe, query) THEN "describe"
  ELSE IF contains(uniq, query) THEN "unique"
  ELSE IF contains(correlation, query) \/ contains(corr, query) THEN "corr"
  ELSE "preview"

\* the if/elif chain over the lower-cased question
branch(query) ==
  IF contains_any({average, mean}, query) THEN "mean"
  ELSE IF contains(median, query) THEN "median"
  ELSE IF contains(sum, query) THEN "sum"
  ELSE IF contains(count, query) THEN "count"
  ELSE IF contains(describe, query) THEN "describe"
  ELSE IF contains(uniq, query) THEN "unique"
  ELSE IF contains(correlation, query) \/ contains(corr, query) THEN "corr"
  ELSE IF contains(top, query) \/ contains(first, query) THEN "top"
  ELSE "preview"

\* for num in range(1, 21): if str(num) in query: n = num; break
RECURSIVE scan_from(_, _)
scan_from(num, query) ==
  IF num > ScanLast THEN HeadDefault
  ELSE IF contains(str(num), query) THEN num
  ELSE scan_from(num + 1, query)

\* the scan replaced by a parse of the number written in the question: the
\* largest of 1..20 whose decimal string occurs
scan_n_parsed(query) ==
  LET found == {num \in 1..ScanLast : contains(str(num), query)} IN
  IF found = {} THEN HeadDefault
  ELSE CHOOSE num \in found : \A other \in found : other <= num

\* the scan run downwards, from 20 to 1
RECURSIVE scan_down_from(_, _)
scan_down_from(num, query) ==
  IF num < 1 THEN HeadDefault
  ELSE IF contains(str(num), query) THEN num
  ELSE scan_down_from(num - 1, query)

scan_n_downwards(query) == scan_down_from(ScanLast, query)

scan_n(query) == scan_from(1, query)

\* for col in self.df.columns: if col.lower() in query.lower(): ...; break
\* "raise" when col.lower() is applied to a label that is no str,
\* 0 when the loop ends without a match, else the column's position
RECURSIVE unique_column(_, _, _)
unique_column(df, i, query) ==
  IF i > Len(columns(df)) THEN [raised |-> FALSE, col |-> 0]
  ELSE IF ~columns(df)[i].label.is_str THEN [raised |-> TRUE, col |-> 0]
  ELSE IF contains(lower(columns(df)[i].label.text), lower(query))
       THEN [raised |-> FALSE, col |-> i]
  ELSE unique_column(df, i + 1, query)

\* the value of `result` after the chain; kind "None" is Python's None and
\* kind "raise" an exception raised inside the try block.
\* strict_corr: the installed pandas refuses non-numeric columns in corr().
basic_result(df, query, strict_corr) ==
  LET b == branch(query) IN
  CASE b = "mean" -> Res("mean", df, 0, <<numeric_labels(df)>>)
    [] b = "median" -> Res("median", df, 0, <<numeric_labels(df)>>)
    [] b = "sum" -> Res("sum", df, 0, <<numeric_labels(df)>>)
    [] b = "count" -> Res("count", df, Len(rows(df)), << >>)
    [] b = "describe" ->
         IF Len(columns(df)) = 0 THEN Message("raise")
         ELSE Res("describe", df, 0, <<numeric_labels(df)>>)
    [] b = "unique" ->
         LET u == unique_column(df, 1, query) IN
         IF u.raised THEN Message("raise")
         ELSE IF u.col = 0 THEN Message("None")
         ELSE Res("unique", df, 0, <<unique(df, u.col)>>)
    [] b = "corr" ->
         IF strict_corr /\ ~all_numeric(df) THEN Message("raise")
         ELSE Res("corr", df, 0, <<numeric_labels(df)>>)
    [] b = "top" -> Res("head", df, 0, head(df, scan_n(query)))
    [] OTHER -> Res("head", df, 0, head(df, HeadDefault))

Answer(ok, value) == [ok |-> ok, value |-> value]

\* basic_query without the `result is not None` test
basic_query_none_ok(df, query, strict_corr) ==
  LET result == basic_result(df, lower(query), strict_corr) IN
  IF result.kind = "raise" THEN Answer(FALSE, Message("Error processing basic query"))
  ELSE Answer(TRUE, result)

\* lines 62-99: the (success, result) pair of the fallback branch
basic_query(df, query, strict_corr) ==
  LET result == basic_result(df, lower(query), strict_corr) IN
  IF result.kind = "raise" THEN Answer(FALSE, Message("Error processing basic query"))
  ELSE IF result.kind # "None" THEN Answer(TRUE, result)
  ELSE Answer(FALSE, Message("Could not process query in basic mode"))

(***************************************************************************)
(* DataProcessor: the engine object                                        *)
(***************************************************************************)
Engine(llm, df, smart_df, fallback_mode) ==
  [constructed |-> TRUE, llm |-> llm, df |-> df, smart_df |-> smart_df,
   fallback_mode |-> fallback_mode]

\* the slot that holds no engine (st.session_state.data_processor = None)
NoEngine ==
  [constructed |-> FALSE, llm |-> None, df |-> None, smart_df |-> None,
   fallback_mode |-> FALSE]

\* what an operation hands back: the engine after it, the (success, result)
\* pair, the number of times it reached the external service, and the
\* number of nested process_query calls it made
Outcome(dp, ok, value, calls, depth) ==
  [dp |-> dp, ok |-> ok, value |-> value, calls |-> calls, depth |-> depth]

\* _initialize_pandasai (lines 23-35): SmartDataframe(test_df) succeeds or
\* the exception is absorbed into fallback mode
initialize_pandasai(dp, init_ok) ==
  [dp EXCEPT !.fallback_mode = ~init_ok]

\* __init__ (lines 8-21).  llm_ok: OpenAI(api_token=...) does not raise.
\* In the except branch the attributes assigned so far keep their values;
\* smart_df may be left unset there, which is read as None.
init(api_key, llm_ok, init_ok) ==
  IF api_key = ""
  THEN Outcome(NoEngine, FALSE, Message("ValueError"), 0, 0)
  ELSE IF ~llm_ok
  THEN Outcome(Engine(None, None, None, TRUE), TRUE, Message("engine"), 1, 0)
  ELSE Outcome(initialize_pandasai(Engine(api_key, None, None, FALSE), init_ok),
               TRUE, Message("engine"), 2, 0)

\* load_excel that binds whatever the mode and goes live when binding works
load_excel_rebinds(dp, file, bind_ok) ==
  LET parsed == read_excel(file) IN
  IF parsed.raised
  THEN Outcome(dp, FALSE, Message("Error loading file"), 0, 0)
  ELSE LET loaded == [dp EXCEPT !.df = parsed.df] IN
       IF bind_ok
       THEN Outcome([loaded EXCEPT !.smart_df = parsed.df, !.fallback_mode = FALSE],
                    TRUE, Res("df", parsed.df, 0, << >>), 1, 0)
       ELSE Outcome([loaded EXCEPT !.fallback_mode = TRUE],
                    TRUE, Res("df", parsed.df, 0, << >>), 1, 0)

\* load_excel without the inner try: a binding failure fails the load
load_excel_bind_fatal(dp, file, bind_ok) ==
  LET parsed == read_excel(file) IN
  IF parsed.raised
  THEN Outcome(dp, FALSE, Message("Error loading file"), 0, 0)
  ELSE LET loaded == [dp EXCEPT !.df = parsed.df] IN
       IF ~loaded.fallback_mode
       THEN IF bind_ok
            THEN Outcome([loaded EXCEPT !.smart_df = parsed.df],
                         TRUE, Res("df", parsed.df, 0, << >>), 1, 0)
            ELSE Outcome(loaded, FALSE, Message("Error loading file"), 1, 0)
       ELSE Outcome(loaded, TRUE, Res("df", parsed.df, 0, << >>), 0, 0)

\* load_excel that absorbs a binding failure without switching the mode
load_excel_stale_binding(dp, file, bind_ok) ==
  LET parsed == read_excel(file) IN
  IF parsed.raised
  THEN Outcome(dp, FALSE, Message("Error loading file"), 0, 0)
  ELSE LET loaded == [dp EXCEPT !.df = parsed.df] IN
       IF ~loaded.fallback_mode
       THEN IF bind_ok
            THEN Outcome([loaded EXCEPT !.smart_df = parsed.df],
                         TRUE, Res("df", parsed.df, 0, << >>), 1, 0)
            ELSE Outcome(loaded, TRUE, Res("df", parsed.df, 0, << >>), 1, 0)
       ELSE Outcome(loaded, TRUE, Res("df", parsed.df, 0, << >>), 0, 0)

\* load_excel (lines 37-52).  bind_ok: SmartDataframe(self.df, ...) does
\* not raise.
load_excel(dp, file, bind_ok) ==
  LET parsed == read_excel(file) IN
  IF parsed.raised
  THEN Outcome(dp, FALSE, Message("Error loading file"), 0, 0)
  ELSE LET loaded == [dp EXCEPT !.df = parsed.df] IN
       IF ~loaded.fallback_mode
       THEN IF bind_ok
            THEN Outcome([loaded EXCEPT !.smart_df = parsed.df],
                         TRUE, Res("df", parsed.df, 0, << >>), 1, 0)
            ELSE Outcome([loaded EXCEPT !.fallback_mode = TRUE],
                         TRUE, Res("df", parsed.df, 0, << >>), 1, 0)
       ELSE Outcome(loaded, TRUE, Res("df", parsed.df, 0, << >>), 0, 0)

\* self.smart_df.chat(str(query)) (line 103): the service's answer, which
\* depends on the table it was bound to and on the question as sent
chat(smart_df, query) == Res("chat", smart_df, 0, << <<query>> >>)

\* process_query that gives up after a failed chat instead of retrying
process_query_noretry(dp, query, chat_ok, strict_corr) ==
  IF dp.df = None
  THEN Outcome(dp, FALSE, Message("No data loaded"), 0, 0)
  ELSE IF dp.fallback_mode
  THEN LET a == basic_query(dp.df, query, strict_corr)
       IN Outcome(dp, a.ok, a.value, 0, 0)
  ELSE IF dp.smart_df # None /\ chat_ok
  THEN Outcome(dp, TRUE, chat(dp.smart_df, query), 1, 0)
  ELSE Outcome([dp EXCEPT !.fallback_mode = TRUE], FALSE,
               Message("Unexpected error"),
               IF dp.smart_df # None THEN 1 ELSE 0, 0)

\* process_query that tests `self.df is None` only inside the fallback branch
RECURSIVE process_query_late_check(_, _, _, _)
process_query_late_check(dp, query, chat_ok, strict_corr) ==
  IF dp.fallback_mode
  THEN IF dp.df = None
       THEN Outcome(dp, FALSE, Message("No data loaded"), 0, 0)
       ELSE LET a == basic_query(dp.df, query, strict_corr)
            IN Outcome(dp, a.ok, a.value, 0, 0)
  ELSE IF dp.smart_df # None /\ chat_ok
  THEN Outcome(dp, TRUE, chat(dp.smart_df, query), 1, 0)
  ELSE LET retry == process_query_late_check([dp EXCEPT !.fallback_mode = TRUE],
                                             query, chat_ok, strict_corr)
       IN Outcome(retry.dp, retry.ok, retry.value,
                  retry.calls + (IF dp.smart_df # None THEN 1 ELSE 0),
                  retry.depth + 1)

\* process_query (lines 54-111).  chat_ok: the external service answers.
RECURSIVE process_query(_, _, _, _)
process_query(dp, query, chat_ok, strict_corr) ==
  IF dp.df = None
  THEN Outcome(dp, FALSE, Message("No data loaded"), 0, 0)
  ELSE IF dp.fallback_mode
  THEN LET a == basic_query(dp.df, query, strict_corr)
       IN Outcome(dp, a.ok, a.value, 0, 0)
  ELSE IF dp.smart_df # None /\ chat_ok
  THEN Outcome(dp, TRUE, chat(dp.smart_df, query), 1, 0)
  ELSE LET retry == process_query([dp EXCEPT !.fallback_mode = TRUE],
                                  query, chat_ok, strict_corr)
       IN Outcome(retry.dp, retry.ok, retry.value,
                  retry.calls + (IF dp.smart_df # None THEN 1 ELSE 0),
                  retry.depth + 1)

\* generate_summary (lines 113-135)
Summary(is_none, nrows, ncols, numeric, missing, types) ==
  [is_none |-> is_none, rows |-> nrows, columns |-> ncols,
   numeric_columns |-> numeric, missing_values |-> missing,
   column_types |-> types]

NaN == <<"N","a","N">>

missing_cells(df) ==
  Cardinality({c \in (1..Len(rows(df))) \X (1..Len(columns(df))) :
                 rows(df)[c[1]][c[2]] = NaN})

dtype_counts(df) ==
  LET cols == columns(df)
      dtypes == {cols[i].dtype : i \in 1..Len(cols)}
  IN {<<d, Cardinality({i \in 1..Len(cols) : cols[i].dtype = d})>> : d \in dtypes}

\* generate_summary that answers an unloaded engine with the zeroed summary
generate_summary_zero_unloaded(dp, internal_error) ==
  IF dp.df = None \/ internal_error
  THEN Summary(FALSE, 0, 0, 0, 0, {})
  ELSE Summary(FALSE, Len(rows(dp.df)), Len(columns(dp.df)),
               Len(numeric_labels(dp.df)), missing_cells(dp.df),
               dtype_counts(dp.df))

\* internal_error: one of the pandas calls inside the try block raises
generate_summary(dp, internal_error) ==
  IF dp.df = None
  THEN Summary(TRUE, 0, 0, 0, 0, {})
  ELSE IF internal_error
  THEN Summary(FALSE, 0, 0, 0, 0, {})
  ELSE Summary(FALSE, Len(rows(dp.df)), Len(columns(dp.df)),
               Len(numeric_labels(dp.df)), missing_cells(dp.df),
               dtype_counts(dp.df))

(***************************************************************************)
(* Questions                                                               *)
(***************************************************************************)
Vocabulary ==
  { <<"A","v","e","r","a","g","e">>, mean, <<"M","E","D","I","A","N">>,
    sum, count, describe, uniq, corr, top, <<"F","i","r","s","t">>,
    <<" ","3">>, <<" ","2","5">>, <<" ","1","0">>, <<" ","2","0">>,
    <<" ","a","g","e">>, <<"s","h","o","w">> }

MaxWords == 3

RECURSIVE phrases(_)
phrases(n) ==
  IF n = 0 THEN { << >> }
  ELSE LET shorter == phrases(n - 1)
       IN shorter \cup {p \o w : p \in shorter, w \in Vocabulary}

Questions == phrases(MaxWords)

\* the questions typed in a session: every single word and some phrases
SessionQuestions ==
  phrases(1) \cup
  { correlation,
    uniq \o <<" ","a","g","e">>,
    uniq \o <<" ","N","a","m","e">>,
    <<"A","v","e","r","a","g","e">> \o <<" ","o","f"," ">> \o top \o <<" ","1","0">>,
    top \o <<" ","2","5">> }

(***************************************************************************)
(* The record of the last operation: what was called, with which argument  *)
(* and environment, on which engine, and what came back                    *)
(***************************************************************************)
Env(llm_ok, init_ok, bind_ok, chat_ok, strict_corr, internal_error) ==
  [llm_ok |-> llm_ok, init_ok |-> init_ok, bind_ok |-> bind_ok,
   chat_ok |-> chat_ok, strict_corr |-> strict_corr,
   internal_error |-> internal_error]

Quiet == Env(TRUE, TRUE, TRUE, TRUE, FALSE, FALSE)

Last(op, arg, env, before, out) ==
  [op |-> op, arg |-> arg, env |-> env, before |-> before,
   ok |-> out.ok, value |-> out.value, calls |-> out.calls, depth |-> out.depth]

NoLast == Last("none", << >>, Quiet, NoEngine, Outcome(NoEngine, TRUE, Message("none"), 0, 0))

NoInput == [kind |-> "none"]

\* an UploadedFile: the upload's id and the file's content; two are equal
\* when they are the same upload
Upload(id, file) == [id |-> id, file |-> file]

NoUpload == Upload(0, None)

\* st.session_state after the first run of the script (app.py lines 19-29)
NoSession == [api_key |-> "", df |-> None, uploaded_file |-> NoUpload]

\* the values of the three input widgets (app.py lines 34, 67, 96)
NoWidgets == [api_key |-> "", uploaded_file |-> NoUpload, query |-> << >>]

ApiKeys == {"", "sk-1", "sk-2"}

(***************************************************************************)
(* Spec: one engine, driven directly through its public operations         *)
(***************************************************************************)
Init ==
  /\ data_processor = NoEngine
  /\ last = NoLast
  /\ input = NoInput
  /\ session_state = NoSession
  /\ widgets = NoWidgets

Construct ==
  /\ ~data_processor.constructed
  /\ \E api_key \in ApiKeys, llm_ok \in BOOLEAN, init_ok \in BOOLEAN :
       LET out == init(api_key, llm_ok, init_ok) IN
       /\ data_processor' = out.dp
       /\ last' = Last("init", <<api_key>>,
                       Env(llm_ok, init_ok, TRUE, TRUE, FALSE, FALSE),
                       data_processor, out)
  /\ UNCHANGED <<input, session_state, widgets>>

Load ==
  /\ data_processor.constructed
  /\ \E file \in Files, bind_ok \in BOOLEAN :
       LET out == load_excel(data_processor, file, bind_ok) IN
       /\ data_processor' = out.dp
       /\ last' = Last("load", <<file>>,
                       Env(TRUE, TRUE, bind_ok, TRUE, FALSE, FALSE),
                       data_processor, out)
  /\ UNCHANGED <<input, session_state, widgets>>

Query ==
  /\ data_processor.constructed
  /\ \E query \in SessionQuestions, chat_ok \in BOOLEAN, strict_corr \in BOOLEAN :
       LET out == process_query(data_processor, query, chat_ok, strict_corr) IN
       /\ data_processor' = out.dp
       /\ last' = Last("query", query,
                       Env(TRUE, TRUE, TRUE, chat_ok, strict_corr, FALSE),
                       data_processor, out)
  /\ UNCHANGED <<input, session_state, widgets>>

Summarize ==
  /\ data_processor.constructed
  /\ \E internal_error \in BOOLEAN :
       /\ data_processor' = data_processor
       /\ last' = Last("summary", << >>,
                       Env(TRUE, TRUE, TRUE, TRUE, FALSE, internal_error),
                       data_processor,
                       Outcome(data_processor, TRUE,
                               generate_summary(data_processor, internal_error), 0, 0))
  /\ UNCHANGED <<input, session_state, widgets>>

Next == Construct \/ Load \/ Query \/ Summarize

Spec == Init /\ [][Next]_vars

(***************************************************************************)
(* Properties of the engine (specification Spec)                           *)
(***************************************************************************)

\* C1: once the engine is in fallback mode every further step leaves it in
\* fallback mode and does not reach the external service: a query is
\* answered by the keyword branches (never by the service's chat) and a
\* load leaves the binding alone.
C1_FallbackIsPermanent ==
  [][ (data_processor.constructed /\ data_processor.fallback_mode) =>
        /\ data_processor'.constructed
        /\ data_processor'.fallback_mode
        /\ last'.calls = 0
        /\ last'.depth = 0
        /\ data_processor'.smart_df = data_processor.smart_df
        /\ (last'.op = "query" /\ data_processor.df # None =>
              Answer(last'.ok, last'.value)
                = basic_query(data_processor.df, last'.arg, last'.env.strict_corr))
    ]_vars

\* C1 witness: an engine that had bound a table went to fallback mode and
\* then answered a query.
C1_Witness ==
  /\ last.op = "query"
  /\ last.before.fallback_mode
  /\ last.before.smart_df # None
  /\ last.before.df # None
  /\ last.env.chat_ok

\* C2: a live query on a loaded table whose service call fails leaves the
\* engine in fallback mode and returns exactly the fallback answer to the
\* same question on the same table, after one service call and one retry.
C2_LiveFailureRetriesOnce ==
  (last.op = "query" /\ ~last.before.fallback_mode /\ last.before.df # None
     /\ ~last.env.chat_ok) =>
    /\ data_processor = [last.before EXCEPT !.fallback_mode = TRUE]
    /\ Answer(last.ok, last.value)
         = basic_query(last.before.df, last.arg, last.env.strict_corr)
    /\ last.calls = 1
    /\ last.depth = 1

C2_Witness ==
  /\ last.op = "query"
  /\ ~last.before.fallback_mode
  /\ last.before.df # None
  /\ ~last.env.chat_ok
  /\ last.ok

\* the question was answered by the keyword branches
AnsweredBasic == last.before.fallback_mode \/ ~last.env.chat_ok

\* the unique loop meets a label that is no str before any label that
\* occurs in the question
UniqueLoopRaises(df, query) ==
  \E i \in 1..Len(columns(df)) :
    /\ ~columns(df)[i].label.is_str
    /\ \A j \in 1..(i - 1) :
         ~contains(lower(columns(df)[j].label.text), lower(query))

\* no column label occurs in the question
NoColumnNamed(df, query) ==
  \A i \in 1..Len(columns(df)) :
    /\ columns(df)[i].label.is_str
    /\ ~contains(lower(columns(df)[i].label.text), lower(query))

\* the pandas call of the branch the question selects raises
LibraryRaises(df, query, strict_corr) ==
  LET b == branch(lower(query)) IN
  \/ b = "describe" /\ Len(columns(df)) = 0
  \/ b = "corr" /\ strict_corr /\ ~all_numeric(df)
  \/ b = "unique" /\ UniqueLoopRaises(df, query)

\* C3 as stated: with a dataset loaded, query never returns a failure.
C3_QueryNeverFails ==
  (last.op = "query" /\ last.before.df # None) => last.ok

\* C3 amended: with a dataset loaded, query never returns the no-data
\* error and an answer of the service is a success; a question answered by
\* the keyword branches fails in exactly two cases: it selects the unique
\* branch and names no column ("could not process query"), or the pandas
\* call of its branch raises ("error processing basic query").
C3_FailuresOfQuery ==
  (last.op = "query" /\ last.before.df # None) =>
    LET df == last.before.df
        raises == AnsweredBasic /\ LibraryRaises(df, last.arg, last.env.strict_corr)
        unnamed == /\ AnsweredBasic
                   /\ branch(lower(last.arg)) = "unique"
                   /\ NoColumnNamed(df, last.arg)
    IN /\ last.value.kind # "No data loaded"
       /\ last.ok <=> ~raises /\ ~unnamed
       /\ raises <=> last.value.kind = "Error processing basic query"
       /\ unnamed <=> last.value.kind = "Could not process query in basic mode"

C3_Witness ==
  /\ last.op = "query"
  /\ last.before.df # None
  /\ last.before.fallback_mode
  /\ ~last.ok
  /\ last.value.kind = "Could not process query in basic mode"

\* C6: a query on an engine without a dataset fails with the no-data
\* error, reaches the service zero times and leaves the engine as it was.
C6_NoDataError ==
  (last.op = "query" /\ last.before.df = None) =>
    /\ ~last.ok
    /\ last.value.kind = "No data loaded"
    /\ last.calls = 0
    /\ last.depth = 0
    /\ data_processor = last.before

C6_Witness ==
  /\ last.op = "query"
  /\ last.before.constructed
  /\ last.before.df = None
  /\ ~last.before.fallback_mode
  /\ ~last.env.chat_ok

\* C7: construction fails exactly when the credential is empty and
\* otherwise yields an engine without dataset, live when the service
\* initialised and in fallback mode when it did not; a load fails exactly
\* when the file does not parse, and a load that parses installs the new
\* table, switching to fallback mode when the binding fails.
C7_ServiceFailuresDegrade ==
  /\ last.op = "init" =>
       /\ last.ok <=> last.arg # <<"">>
       /\ data_processor.constructed <=> last.ok
       /\ data_processor.df = None
       /\ last.ok =>
            (data_processor.fallback_mode <=> ~(last.env.llm_ok /\ last.env.init_ok))
  /\ last.op = "load" =>
       /\ last.ok <=> last.arg[1] \in Parsable
       /\ last.ok =>
            /\ data_processor.df = last.arg[1]
            /\ last.value.df = last.arg[1]
            /\ data_processor.fallback_mode
                 <=> (last.before.fallback_mode \/ ~last.env.bind_ok)
       /\ ~last.ok => data_processor = last.before

C7_Witness ==
  /\ last.op = "load"
  /\ last.ok
  /\ ~last.before.fallback_mode
  /\ last.before.df # None
  /\ ~last.env.bind_ok
  /\ data_processor.df # last.before.df
  /\ data_processor.fallback_mode

\* C9 as stated: summary() returns a Summary record in every state of a
\* constructed engine.
C9_SummaryAlwaysARecord ==
  last.op = "summary" => ~last.value.is_none

\* C9 amended: summary() never fails and never changes the engine; it
\* returns a Summary record exactly when a dataset is loaded (the counts of
\* the table, or the zeroed record after an internal error) and returns
\* nothing (None) before any dataset has been loaded.
C9_SummaryOfLoaded ==
  last.op = "summary" =>
    /\ last.ok
    /\ data_processor = last.before
    /\ last.value.is_none <=> last.before.df = None
    /\ (~last.value.is_none /\ last.env.internal_error) =>
         last.value = Summary(FALSE, 0, 0, 0, 0, {})
    /\ (~last.value.is_none /\ ~last.env.internal_error) =>
         /\ last.value.rows = Len(rows(last.before.df))
         /\ last.value.columns = Len(columns(last.before.df))
         /\ last.value.numeric_columns
              = Cardinality({i \in 1..Len(columns(last.before.df)) :
                               is_numeric(columns(last.before.df)[i])})

C9_Witness ==
  /\ last.op = "summary"
  /\ last.before.constructed
  /\ last.before.df = None
  /\ last.value.is_none

(***************************************************************************)
(* DispatchSpec: the fallback dispatch as a function of table and          *)
(* question.  The engine starts in fallback mode (its construction failed  *)
(* to initialise the service) with a table loaded; the question to ask is  *)
(* drawn from Questions.                                                   *)
(***************************************************************************)
FallbackEngine(file) ==
  load_excel(init("sk-1", TRUE, FALSE).dp, file, TRUE).dp

DispatchInit ==
  /\ \E file \in Parsable : data_processor = FallbackEngine(file)
  /\ \E q \in Questions : input = [kind |-> "question", q |-> q]
  /\ last = NoLast
  /\ session_state = NoSession
  /\ widgets = NoWidgets

Ask ==
  /\ input.kind = "question"
  /\ last.op = "none"
  /\ \E strict_corr \in BOOLEAN :
       LET out == process_query(data_processor, input.q, TRUE, strict_corr) IN
       /\ data_processor' = out.dp
       /\ last' = Last("query", input.q,
                       Env(TRUE, TRUE, TRUE, TRUE, strict_corr, FALSE),
                       data_processor, out)
  /\ UNCHANGED <<input, session_state, widgets>>

DispatchNext == Ask

DispatchSpec == DispatchInit /\ [][DispatchNext]_vars

\* the trigger table of the documentation, in its order
Triggers ==
  << {average, mean}, {median}, {sum}, {count}, {describe}, {uniq},
     {correlation, corr}, {top, first} >>

Handlers ==
  << "mean", "median", "sum", "count", "describe", "unique", "corr", "top" >>

\* the handler of the first trigger that occurs in the lower-cased question
FirstMatch(query) ==
  LET hits == {i \in 1..Len(Triggers) : contains_any(Triggers[i], lower(query))} IN
  IF hits = {} THEN "preview"
  ELSE Handlers[CHOOSE i \in hits : \A j \in hits : i <= j]

\* C4: in fallback mode with a dataset loaded the answer is the one of the
\* first trigger, in the documented order, that occurs in the lower-cased
\* question, whatever later triggers or digits the question contains; a
\* question containing "average" returns the per-column means.
C4_FirstTriggerWins ==
  (last.op = "query" /\ last.before.fallback_mode /\ last.before.df # None) =>
    LET h == FirstMatch(last.arg)
        df == last.before.df
        failed == {"Error processing basic query",
                   "Could not process query in basic mode"}
    IN /\ h \in {"mean", "median", "sum", "count"} =>
            last.ok /\ last.value.kind = h /\ last.value.df = df
       /\ h = "describe" => last.value.kind \in {"describe"} \cup failed
       /\ h = "unique" => last.value.kind \in {"unique"} \cup failed
       /\ h = "corr" => last.value.kind \in {"corr"} \cup failed
       /\ h \in {"top", "preview"} => last.ok /\ last.value.kind = "head"
       /\ last.ok => last.value.kind = (IF h \in {"top", "preview"} THEN "head" ELSE h)
       /\ contains(average, lower(last.arg)) =>
            last.ok /\ last.value = Res("mean", df, 0, <<numeric_labels(df)>>)

\* C4 witness: a question with "average", "top" and a number was answered
\* with the means.
C4_Witness ==
  /\ last.op = "query"
  /\ last.before.fallback_mode
  /\ contains(average, lower(last.arg))
  /\ contains(top, lower(last.arg))
  /\ contains(str(10), last.arg)
  /\ last.value.kind = "mean"

\* the first of 1, 2, ..., 20 whose decimal string occurs in the question,
\* 5 when none does
ScannedN(query) ==
  LET found == {k \in 1..20 : contains(str(k), lower(query))} IN
  IF found = {} THEN 5
  ELSE CHOOSE k \in found : \A other \in found : k <= other

FirstRows(df, n) ==
  [i \in 1..(IF n < Len(rows(df)) THEN n ELSE Len(rows(df))) |-> rows(df)[i]]

\* C5: a fallback question that reaches the top/first branch returns the
\* first N rows, N being the first of 1..20 whose decimal string occurs in
\* the question and 5 when none occurs: "top 3" returns 3 rows and "top 25"
\* returns 2 rows; a question with no trigger returns the first 5 rows.
C5_TopNBySubstringScan ==
  (last.op = "query" /\ last.before.fallback_mode /\ last.before.df # None) =>
    LET h == FirstMatch(last.arg)
        df == last.before.df
    IN /\ h = "top" =>
            last.ok /\ last.value = Res("head", df, 0, FirstRows(df, ScannedN(last.arg)))
       /\ h = "preview" =>
            last.ok /\ last.value = Res("head", df, 0, FirstRows(df, 5))
       /\ (last.arg = top \o <<" ","3">> /\ Len(rows(df)) >= 3) =>
            Len(last.value.data) = 3
       /\ (last.arg = top \o <<" ","2","5">> /\ Len(rows(df)) >= 2) =>
            Len(last.value.data) = 2

\* C5 witness: "top 25" asked of the table of 21 rows returned its first
\* 2 rows.
C5_Witness ==
  /\ last.op = "query"
  /\ last.before.fallback_mode
  /\ last.arg = top \o <<" ","2","5">>
  /\ Len(rows(last.before.df)) > 20
  /\ Len(last.value.data) = 2

(***************************************************************************)
(* Visualizer (utils/visualizations.py)                                    *)
(***************************************************************************)
CHART_TYPES ==
  {"bar", "line", "scatter", "histogram", "box", "violin", "pie", "heatmap"}

color_schemes == {"default", "categorical", "sequential", "diverging"}

\* a column argument: a label, or None
Col(name) == [given |-> TRUE, name |-> name]

NoCol == [given |-> FALSE, name |-> << >>]

Fig(kind, chart, x, y, color, colors, styled) ==
  [kind |-> kind, chart |-> chart, x |-> x, y |-> y, color |-> color,
   colors |-> colors, styled |-> styled]

\* return None
NoFigure == Fig("none", "", NoCol, NoCol, NoCol, "", FALSE)

\* an exception on its way out
Raised == Fig("raise", "", NoCol, NoCol, NoCol, "", FALSE)

has_column(df, col) ==
  \E i \in 1..Len(columns(df)) : columns(df)[i].label.text = col.name

\* plotly refuses a column argument that names no column of the table
unknown_column(df, cols) == \E col \in cols : col.given /\ ~has_column(df, col)

\* the _create_* routines (lines 73-152): the figure, or the exception of
\* the plotting library.  build_raises: the library rejects the request
\* for a reason of its own.
create_chart(df, chart_type, x_column, y_column, color_column, colors, build_raises, strict_corr) ==
  LET fig == Fig("figure", chart_type, x_column, y_column, color_column, colors, FALSE)
      plain == [fig EXCEPT !.color = NoCol]
  IN
  IF build_raises THEN Raised
  ELSE CASE chart_type = "scatter" ->
              IF unknown_column(df, {x_column, y_column, color_column}) THEN Raised
              ELSE fig
         [] chart_type = "histogram" ->
              IF unknown_column(df, {x_column}) THEN Raised
              ELSE [plain EXCEPT !.y = NoCol]
         [] chart_type = "heatmap" ->
              IF ~x_column.given \/ ~y_column.given
              THEN IF strict_corr /\ ~all_numeric(df) THEN Raised
                   ELSE [plain EXCEPT !.x = NoCol, !.y = NoCol, !.colors = "RdBu"]
              ELSE IF unknown_column(df, {x_column, y_column}) THEN Raised
              ELSE [plain EXCEPT !.colors = "RdBu"]
         [] OTHER ->
              IF unknown_column(df, {x_column, y_column}) THEN Raised
              ELSE plain

\* _apply_common_styling (lines 60-71)
apply_common_styling(fig, style_raises) ==
  IF style_raises THEN Raised ELSE [fig EXCEPT !.styled = TRUE]

\* create_visualization with the try block removed
create_visualization_unguarded(df, chart_type, x_column, y_column, color_column, color_scheme, build_raises, style_raises, strict_corr) ==
  IF df = None \/ empty(df) THEN NoFigure
  ELSE LET colors == IF color_scheme \in color_schemes THEN color_scheme ELSE "default"
       IN IF chart_type \notin CHART_TYPES THEN NoFigure
          ELSE LET fig == create_chart(df, chart_type, x_column, y_column,
                                       color_column, colors, build_raises, strict_corr)
               IN IF fig.kind = "raise" THEN Raised
                  ELSE apply_common_styling(fig, style_raises)

\* create_visualization (lines 26-58)
create_visualization(df, chart_type, x_column, y_column, color_column, color_scheme, build_raises, style_raises, strict_corr) ==
  IF df = None \/ empty(df) THEN NoFigure
  ELSE LET colors == IF color_scheme \in color_schemes THEN color_scheme ELSE "default"
           attempt ==
             IF chart_type \notin CHART_TYPES THEN NoFigure
             ELSE LET fig == create_chart(df, chart_type, x_column, y_column,
                                          color_column, colors, build_raises, strict_corr)
                  IN IF fig.kind = "raise" THEN Raised
                     ELSE apply_common_styling(fig, style_raises)
       IN IF attempt.kind = "raise" THEN NoFigure ELSE attempt

(***************************************************************************)
(* ChartSpec: create_visualization as a function of its arguments and of   *)
(* what the plotting library does with them                                *)
(***************************************************************************)
ChartTypeInputs == CHART_TYPES \cup {"area", ""}

ColumnInputs ==
  {NoCol, Col(<<"A","g","e">>), Col(<<"q","t","y">>), Col(<<"C","i","t","y">>)}

SchemeInputs == {"default", "sequential", "neon"}

ChartInit ==
  /\ data_processor = NoEngine
  /\ last = NoLast
  /\ session_state = NoSession
  /\ widgets = NoWidgets
  /\ \E df \in {None} \cup Parsable, chart_type \in ChartTypeInputs,
        x_column \in ColumnInputs, y_column \in ColumnInputs,
        color_column \in {NoCol, Col(<<"C","i","t","y">>)},
        color_scheme \in SchemeInputs,
        build_raises \in BOOLEAN, style_raises \in BOOLEAN, strict_corr \in BOOLEAN :
       input = [kind |-> "chart", df |-> df, chart_type |-> chart_type,
                x_column |-> x_column, y_column |-> y_column,
                color_column |-> color_column, color_scheme |-> color_scheme,
                build_raises |-> build_raises, style_raises |-> style_raises,
                strict_corr |-> strict_corr]

Render ==
  /\ input.kind = "chart"
  /\ last.op = "none"
  /\ last' = Last("chart", << >>, Quiet, NoEngine,
                  Outcome(NoEngine, TRUE,
                          create_visualization(input.df, input.chart_type,
                            input.x_column, input.y_column, input.color_column,
                            input.color_scheme, input.build_raises,
                            input.style_raises, input.strict_corr),
                          0, 0))
  /\ UNCHANGED <<data_processor, input, session_state, widgets>>

ChartNext == Render

ChartSpec == ChartInit /\ [][ChartNext]_vars

\* C8: create_visualization never lets an error out: it returns a figure
\* or no figure, and no figure when the chart type is none of the eight,
\* when the dataset is absent or empty, or when building or styling the
\* chart raises; a figure that is returned is of the requested type and
\* has had the common styling applied.
C8_ChartBuilderNeverRaises ==
  last.op = "chart" =>
    /\ last.value.kind \in {"figure", "none"}
    /\ ( \/ input.chart_type \notin
              {"bar", "line", "scatter", "histogram", "box", "violin", "pie", "heatmap"}
         \/ input.df = None
         \/ Len(rows(input.df)) = 0
         \/ Len(columns(input.df)) = 0
         \/ input.build_raises
         \/ input.style_raises ) => last.value.kind = "none"
    /\ last.value.kind = "figure" =>
         /\ last.value.styled
         /\ last.value.chart = input.chart_type

\* C8 witness: the styling step raised on a chart that had been built, and
\* no figure came back.
C8_Witness ==
  /\ last.op = "chart"
  /\ input.df # None
  /\ Len(rows(input.df)) > 0
  /\ input.chart_type = "pie"
  /\ ~input.build_raises
  /\ input.style_raises
  /\ ~unknown_column(input.df, {input.x_column, input.y_column})
  /\ last.value.kind = "none"

(***************************************************************************)
(* app.py: one run of the Streamlit script.  Every change of a widget      *)
(* reruns the whole script, top to bottom, on the session state.           *)
(***************************************************************************)
Session(ss, dp) == [ss |-> ss, dp |-> dp]

\* lines 32-50: the API key box
sidebar(ss, dp, w, llm_ok, init_ok) ==
  IF w.api_key # ss.api_key
  THEN LET entered == [ss EXCEPT !.api_key = w.api_key] IN
       IF w.api_key # ""
       THEN LET made == init(w.api_key, llm_ok, init_ok) IN
            Session(entered, IF made.ok THEN made.dp ELSE dp)
       ELSE Session(entered, NoEngine)
  ELSE Session(ss, dp)

\* lines 61-87: the file uploader
upload_section(ss, dp, w, bind_ok) ==
  IF ss.api_key = "" THEN Session(ss, dp)
  ELSE IF w.uploaded_file # NoUpload /\ ss.uploaded_file # w.uploaded_file
  THEN LET seen == [ss EXCEPT !.uploaded_file = w.uploaded_file]
           loaded == load_excel(dp, w.uploaded_file.file, bind_ok)
       IN IF loaded.ok
          THEN Session([seen EXCEPT !.df = loaded.value.df], loaded.dp)
          ELSE Session(seen, loaded.dp)
  ELSE Session(ss, dp)

\* lines 89-137: the query tab; the Outcome of process_query when a
\* question is in the box, else nothing
NoQuery(dp) == Last("none", << >>, Quiet, dp, Outcome(dp, TRUE, Message("none"), 0, 0))

query_tab(ss, dp, w, chat_ok) ==
  IF ss.api_key # "" /\ ss.df # None /\ w.query # << >>
  THEN LET out == process_query(dp, w.query, chat_ok, FALSE) IN
       [dp |-> out.dp,
        last |-> Last("query", w.query, Env(TRUE, TRUE, TRUE, chat_ok, FALSE, FALSE),
                      dp, out)]
  ELSE [dp |-> dp, last |-> NoQuery(dp)]

\* a widget that the run did not render loses its value
rendered(ss, w) ==
  IF ss.api_key = "" THEN [w EXCEPT !.uploaded_file = NoUpload, !.query = << >>]
  ELSE IF ss.df = None THEN [w EXCEPT !.query = << >>]
  ELSE w

\* the whole script on the widget values w
Rerun(w) ==
  \E llm_ok \in BOOLEAN, init_ok \in BOOLEAN, bind_ok \in BOOLEAN, chat_ok \in BOOLEAN :
    LET s1 == sidebar(session_state, data_processor, w, llm_ok, init_ok)
        s2 == upload_section(s1.ss, s1.dp, w, bind_ok)
        s3 == query_tab(s2.ss, s2.dp, w, chat_ok)
    IN /\ session_state' = s2.ss
       /\ data_processor' = s3.dp
       /\ last' = s3.last
       /\ widgets' = rendered(s2.ss, w)
       /\ UNCHANGED input

AppFiles == {"sales.xlsx", "nums.xlsx", "corrupt.xlsx"}

AppQuestions == {count, uniq, top \o <<" ","3">>}

\* a fresh upload differs from the upload in the box and from the one the
\* session remembers; three ids always leave one that is fresh
UploadIds == 1..3

AppInit ==
  /\ data_processor = NoEngine
  /\ last = NoLast
  /\ input = NoInput
  /\ session_state = NoSession
  /\ widgets = NoWidgets

EnterApiKey ==
  \E api_key \in ApiKeys :
    /\ api_key # widgets.api_key
    /\ Rerun([widgets EXCEPT !.api_key = api_key])

UploadFile ==
  /\ session_state.api_key # ""
  /\ \E file \in AppFiles,
        id \in UploadIds \ {widgets.uploaded_file.id, session_state.uploaded_file.id} :
       Rerun([widgets EXCEPT !.uploaded_file = Upload(id, file)])

RemoveFile ==
  /\ session_state.api_key # ""
  /\ widgets.uploaded_file # NoUpload
  /\ Rerun([widgets EXCEPT !.uploaded_file = NoUpload])

TypeQuery ==
  /\ session_state.api_key # ""
  /\ session_state.df # None
  /\ \E query \in AppQuestions \cup {<< >>} :
       /\ query # widgets.query
       /\ Rerun([widgets EXCEPT !.query = query])

AppNext == EnterApiKey \/ UploadFile \/ RemoveFile \/ TypeQuery

AppSpec == AppInit /\ [][AppNext]_vars

\* C10: whenever the session holds a dataset and the query tab is shown,
\* the session's engine holds that same dataset, and no query typed in the
\* tab is answered with the no-data error.
C10_SessionDatasetInEngine ==
  (session_state.df # None /\ session_state.api_key # "") =>
    /\ data_processor.constructed
    /\ data_processor.df = session_state.df
    /\ last.op = "query" => last.value.kind # "No data loaded"

\* C11: whenever the engine is live and holds a dataset, smart_df is set
\* and bound to that very dataset; a failed load leaves the engine as it
\* was; a live query that the service answers is answered from the dataset
\* loaded last.
C11_BindingFollowsDataset ==
  /\ (data_processor.constructed /\ ~data_processor.fallback_mode
        /\ data_processor.df # None) =>
       /\ data_processor.smart_df # None
       /\ data_processor.smart_df = data_processor.df
  /\ (last.op = "load" /\ ~last.ok) => data_processor = last.before
  /\ (last.op = "load" /\ last.ok) => data_processor.df = last.arg[1]
  /\ (last.op = "query" /\ ~last.before.fallback_mode /\ last.before.df # None
        /\ last.env.chat_ok) =>
       /\ last.ok
       /\ last.value.kind = "chat"
       /\ last.value.df = last.before.df
       /\ last.value.data = << <<last.arg>> >>

\* C11 witness: a live engine bound to one file loaded another file and is
\* now bound to the new one.
C11_Witness ==
  /\ last.op = "load"
  /\ last.ok
  /\ last.before.df # None
  /\ last.before.smart_df = last.before.df
  /\ ~last.before.fallback_mode
  /\ data_processor.df # last.before.df
  /\ ~data_processor.fallback_mode
  /\ data_processor.smart_df = data_processor.df

\* one of the digits 1..9 occurs in the question
HasDigit1To9(query) == \E d \in 1..9 : contains(<<DecimalDigits[d + 1]>>, query)

\* C12: the row count chosen by the top/first branch is always in 1..9,
\* and is 5 when the question has none of the digits 1-9: of a table of
\* more than 20 rows never more than 9 rows come back, "top 10" returns 1
\* row and "first 20" returns 2 rows.
C12_RowCountBelowTen ==
  (last.op = "query" /\ last.before.fallback_mode /\ last.before.df # None
     /\ FirstMatch(last.arg) = "top") =>
    LET df == last.before.df
        n == Len(last.value.data)
    IN /\ last.ok
       /\ last.value.kind = "head"
       /\ n <= 9
       /\ Len(rows(df)) >= 9 => n \in 1..9
       /\ (Len(rows(df)) >= 5 /\ ~HasDigit1To9(last.arg)) => n = 5
       /\ \A k \in 1..9 :
            (Len(rows(df)) >= 9 /\ n = k) =>
              /\ contains(str(k), last.arg) \/ (k = 5 /\ ~HasDigit1To9(last.arg))
              /\ \A j \in 1..(k - 1) : ~contains(str(j), last.arg)
       /\ (Len(rows(df)) >= 2 /\ lower(last.arg) = top \o <<" ","1","0">>) => n = 1
       /\ (Len(rows(df)) >= 2 /\ lower(last.arg) = first \o <<" ","2","0">>) => n = 2

\* C12 witness: "First 20" asked of the table of 21 rows returned 2 rows.
C12_Witness ==
  /\ last.op = "query"
  /\ last.before.fallback_mode
  /\ lower(last.arg) = first \o <<" ","2","0">>
  /\ Len(rows(last.before.df)) > 20
  /\ Len(last.value.data) = 2

====
